---- MODULE Spec2Model ----
(***************************************************************************)
(* XRegistry (custom_components/sonoff/core/ewelink/__init__.py): the      *)
(* device registry and command router of SonoffLAN, with the RF bridge     *)
(* entity XRemote (custom_components/sonoff/remote.py).                    *)
(*                                                                         *)
(* Device dicts are Python objects shared by reference: the registry maps  *)
(* a device id to a reference into `heap`, and every holder of a device    *)
(* (the registry, a command in flight, the activation loop) holds such a   *)
(* reference.                                                              *)
(***************************************************************************)
EXTENDS Integers, Sequences, FiniteSets, TLC

VARIABLES
    devices,       \* self.devices: device id -> reference (NoRef: no such key)
    keys,          \* self.devices.keys(): the device ids in insertion order
    heap,          \* the device dicts: reference -> record
    config,        \* XRegistry.config["devices"][did]["devicekey"] (NoKey: absent)
    local_online,  \* self.local.online
    cloud_online,  \* self.cloud.online
    pubs,          \* dispatcher_send calls made by the handler that ran last
    last,          \* the handler that ran last: its input and the state it found
    snd,           \* the send() coroutine: its locals, position and transport calls
    task,          \* self.task, the pow_helper() coroutine: its locals and position
    now,           \* time.time()
    stopping,      \* the stop() coroutine: its position
    remote         \* an XRemote entity: is_on, ts, and what it has fired

vars == <<devices, keys, heap, config, local_online, cloud_online, pubs, last, snd,
          task, now, stopping, remote>>

----------------------------------------------------------------------------
(* Bounds *)

MaxObjs == 2       \* device dicts alive at one time
MaxBatch == 2      \* devices in one setup_devices call
StartTime == 1000  \* time.time() when the registry is constructed
MaxTime == 1450    \* the clock stops here
MaxStamp == 2      \* timestamps of RF triggers

----------------------------------------------------------------------------
(* Values *)

DIDS == {"A1", "B2"}
NoRef == 0
Refs == 1..MaxObjs
NoKey == "nokey"
Keys == {"k1", "k2"}
NoHost == "nohost"
Hosts == {"h1"}

SIGNAL_ADD_ENTITIES == "add_entities"

\* A params dict is one of these tokens. "None": the message has no params
\* (msg.get("params") is None); "empty": {}; "switch": {"switch": "on"};
\* "online_X": {"online": X}.
OnlineParams == {"online_None", "online_False", "online_True"}
CloudParams == {"empty", "switch", "online_False", "online_True"}
LocalParams == {"switch", "online_None", "online_False", "online_True"}

\* "online" in params
HasOnline(params) == params \in OnlineParams

\* params["online"], as the value a device record stores
OnlineOf(params) ==
    CASE params = "online_True" -> "True"
      [] params = "online_False" -> "False"
      [] OTHER -> "None"

\* not params
Falsy(params) == params \in {"None", "empty"}

\* uiid values: 1 is a plain switch, 28 the RF bridge; the two below stand
\* for power-metering devices with refresh intervals of 30 and 400 seconds.
UiidSwitch == 1
UiidRF == 28
UiidPow30 == 5
UiidPow400 == 32

\* devices.POW_UI_ACTIVE: uiid -> refresh interval dt (the params are not modelled)
POW_UI_ACTIVE == (UiidPow30 :> 30) @@ (UiidPow400 :> 400)

\* A device dict.  online = "unset": the dict has no "online" key.
\* extra = FALSE: the dict has no "extra" key (a raw local message).
\* pow_ts = 0: no "pow_ts" key (device.get("pow_ts", 0)).
Device(did, online, host, devicekey, extra, uiid) ==
    [deviceid |-> did, online |-> online, host |-> host,
     devicekey |-> devicekey, extra |-> extra, uiid |-> uiid, pow_ts |-> 0]

Blank == Device("", "unset", NoHost, NoKey, FALSE, 0)

\* A dict handed to setup_devices: the dict itself (dev), the handler
\* classes the capability factory yields for it (spec), and whether it has
\* the "rfList" params and "zyx_info" tags the RF bridge needs (rf).
Input(dev, spec, rf) == [dev |-> dev, spec |-> spec, rf |-> rf]

\* Handler classes: "XEntity" stands for any entity class whose constructor
\* succeeds, "XFail" for one whose constructor raises, "XRemote" is
\* remote.XRemote.

----------------------------------------------------------------------------
(* The state a handler works on, threaded through its statements *)

State == [devices |-> devices, keys |-> keys, heap |-> heap, pubs |-> <<>>,
          raised |-> FALSE, probes |-> 0, oom |-> FALSE]

\* positions at which the pow_helper() task is alive (not task.done())
Alive == {"start", "sleep", "send", "cancelling"}

\* References held outside the registry: the device of a send() in flight,
\* the device list of the activation loop
Held ==
    (IF snd.pc \in {"idle", "done"} THEN {} ELSE {snd.device})
    \cup (IF task.pc \in Alive
          THEN {task.devices[i] : i \in 1..Len(task.devices)} ELSE {})

\* The dicts that are alive: in the registry, or held
Live(devs) == {devs[did] : did \in DIDS} \cup Held

\* What a subscriber of signal `sig` reads from the registry when invoked
Seen(st, sig) ==
    IF sig \in DIDS /\ st.devices[sig] # NoRef
    THEN [online |-> st.heap[st.devices[sig]].online,
          host |-> st.heap[st.devices[sig]].host]
    ELSE [online |-> "unset", host |-> NoHost]

\* XRegistryBase.dispatcher_send(signal, *args): subscribers run synchronously
dispatcher_send(st, sig, params) ==
    [st EXCEPT !.pubs = Append(@, [sig |-> sig, params |-> params,
                                   seen |-> Seen(st, sig)])]

Raise(st) == [st EXCEPT !.raised = TRUE]

\* asyncio.create_task(self.local.check_offline(device))
check_offline_task(st) == [st EXCEPT !.probes = @ + 1]

----------------------------------------------------------------------------
(* setup_devices *)

\* XRemote.__init__: the child setup is inside try/except; it needs
\* device["params"]["rfList"] and device["tags"]["zyx_info"] (device.rf).
XRemote_init(st, device) ==
    IF device.rf
    THEN dispatcher_send(st, SIGNAL_ADD_ENTITIES, "childs")
    ELSE st

\* cls(self, device)
construct(st, cls, device) ==
    CASE cls = "XFail" -> Raise(st)
      [] cls = "XRemote" -> XRemote_init(st, device)
      [] OTHER -> st

\* devices.get_spec(device): the handler classes for the device
get_spec(device) == device.spec

\* entities = [cls(self, device) for cls in spec]
RECURSIVE entities(_, _, _)
entities(st, spec, device) ==
    IF spec = <<>> THEN st
    ELSE LET s1 == construct(st, Head(spec), device)
         IN  IF s1.raised THEN s1 ELSE entities(s1, Tail(spec), device)

\* device.update(self.config["devices"][deviceid]), errors swallowed
config_update(device) ==
    IF config[device.dev.deviceid] # NoKey
    THEN [device EXCEPT !.dev.devicekey = config[device.dev.deviceid]]
    ELSE device

\* self.devices[deviceid] = device, the dict being a new object; the dict
\* it replaces is freed unless something else holds it. A key that is new
\* goes to the end of the dict, a key that is replaced keeps its place.
insert(st, device) ==
    LET did == device.deviceid
        free == Refs \ Live([st.devices EXCEPT ![did] = NoRef])
        new == CHOOSE r \in free : \A q \in free : r <= q
    IN  IF free = {} THEN [st EXCEPT !.oom = TRUE]
        ELSE [st EXCEPT !.devices[did] = new,
                        !.keys = IF st.devices[did] # NoRef THEN @
                                 ELSE Append(@, did),
                        !.heap = [r \in Refs |->
                                    IF r = new THEN device
                                    ELSE IF r \in free THEN Blank
                                    ELSE st.heap[r]]]

\* the body of the for loop of setup_devices
setup_device(st, device0) ==
    LET device == config_update(device0)
        s1 == entities(st, get_spec(device), device)
    IN  IF s1.raised \/ s1.oom THEN s1
        ELSE insert(dispatcher_send(s1, SIGNAL_ADD_ENTITIES, "entities"),
                    device.dev)

RECURSIVE setup_devices(_, _)
setup_devices(st, batch) ==
    IF batch = <<>> THEN st
    ELSE LET s1 == setup_device(st, Head(batch))
         IN  IF s1.raised \/ s1.oom THEN s1 ELSE setup_devices(s1, Tail(batch))

----------------------------------------------------------------------------
(* cloud_update *)

\* a registry that never skips a repeated online value
same_online_never(device, params) == FALSE

\* line 130: device["online"] == params["online"]
same_online(device, params) == device.online = OnlineOf(params)

\* a registry that never takes a message as a sign of life
is_offline_never(device) == FALSE

\* line 135: device["online"] is False
is_offline(device) == device.online = "False"

cloud_update(st, msg) ==
    LET did == msg.deviceid
        ref == st.devices[did]
        device == st.heap[ref]
        params == msg.params
    IN  IF ref = NoRef THEN st
        ELSE IF device.online = "unset" THEN Raise(st)   \* KeyError: 'online'
        ELSE IF HasOnline(params)
        THEN IF same_online(device, params) THEN st
             ELSE dispatcher_send(
                    [st EXCEPT !.heap[ref].online = OnlineOf(params)], did, params)
        ELSE IF is_offline(device)
        THEN dispatcher_send([st EXCEPT !.heap[ref].online = "True"], did, params)
        ELSE dispatcher_send(st, did, params)

----------------------------------------------------------------------------
(* local_update *)

\* XRegistryLocal.decrypt_msg(msg, key): the payload decrypts with the key
\* it was encrypted with, and raises with any other
decrypt_ok(msg, key) == msg.key # NoKey /\ key = msg.key
decrypt_msg(msg, key) == msg.data

\* devices.setup_diy(msg): the provisional record of a DIY device, which is
\* the message dict with "extra" (and, in msg.online, possibly "online") set
setup_diy(msg) ==
    Input(Device(msg.deviceid, msg.online, msg.host, NoKey, TRUE, msg.uiid),
          msg.spec, msg.rf)

\* the raw message as a device dict: it has no "online" and no "extra"
raw_msg(msg) == Device(msg.deviceid, "unset", msg.host, NoKey, FALSE, 0)

\* a registry that drops the message it cannot decrypt
skip_setup_drop(st, msg) == st

\* lines 151-153: self.devices[did] = msg
skip_setup(st, msg) == insert(st, raw_msg(msg))

\* a registry that publishes the telemetry before it records the host
local_params_stale(st, msg, params) ==
    LET did == msg.deviceid
        ref == st.devices[did]
        s1 == dispatcher_send(st, did, params)
    IN  IF HasOnline(params)
        THEN CASE OnlineOf(params) = "None" -> check_offline_task(st)
               [] OnlineOf(params) = "False" -> dispatcher_send(st, did, "none")
               [] OTHER -> st
        ELSE [s1 EXCEPT !.heap[ref].host = msg.host]

\* a registry that records the host of every message it could read
local_params_host(st, msg, params) ==
    LET did == msg.deviceid
        ref == st.devices[did]
        s1 == [st EXCEPT !.heap[ref].host = msg.host]
    IN  IF HasOnline(params)
        THEN CASE OnlineOf(params) = "None" -> check_offline_task(s1)
               [] OnlineOf(params) = "False" -> dispatcher_send(s1, did, "none")
               [] OTHER -> s1
        ELSE dispatcher_send(s1, did, params)

\* lines 170-180: the handling of the params
local_params(st, msg, params) ==
    LET did == msg.deviceid
        ref == st.devices[did]
    IN  IF HasOnline(params)
        THEN CASE OnlineOf(params) = "None" -> check_offline_task(st)
               [] OnlineOf(params) = "False" -> dispatcher_send(st, did, "none")
               [] OTHER -> st
        ELSE dispatcher_send([st EXCEPT !.heap[ref].host = msg.host], did, params)

\* lines 144-157: the device is not in the registry
local_unknown(st, msg) ==
    LET did == msg.deviceid
        decrypted == Falsy(msg.params)
        ok == config[did] # NoKey /\ decrypt_ok(msg, config[did])
        params == IF decrypted THEN decrypt_msg(msg, config[did]) ELSE msg.params
    IN  IF decrypted /\ ~ok
        THEN skip_setup(st, msg)
        ELSE LET s1 == setup_devices(st, <<setup_diy(msg)>>)
             IN  IF s1.raised \/ s1.oom THEN s1 ELSE local_params(s1, msg, params)

\* a registry that takes the payload of an encrypted message as it comes
local_encrypted_lax(st, msg) == local_params(st, msg, msg.data)

\* lines 159-166: the device is in the registry and the message is encrypted
local_encrypted(st, msg) ==
    LET device == st.heap[st.devices[msg.deviceid]]
    IN  IF device.devicekey = NoKey THEN st
        ELSE IF ~decrypt_ok(msg, device.devicekey) THEN st
        ELSE local_params(st, msg, decrypt_msg(msg, device.devicekey))

local_update(st, msg) ==
    IF st.devices[msg.deviceid] = NoRef THEN local_unknown(st, msg)
    ELSE IF Falsy(msg.params) THEN local_encrypted(st, msg)
    ELSE local_params(st, msg, msg.params)

----------------------------------------------------------------------------
(* send *)

\* outcomes of XRegistryLocal.send and XRegistryCloud.send
Results == {"online", "timeout"}

\* entry: the flags as read at lines 75-76; recheck: what line 76 would
\* yield when the local send returns (the code does not evaluate it again)
Idle ==
    [pc |-> "idle", device |-> NoRef, params_lan |-> "None", query_cloud |-> FALSE,
     entry |-> [local_online |-> FALSE, host |-> NoHost,
                cloud_online |-> FALSE, online |-> "unset"],
     can_local |-> FALSE, can_cloud |-> FALSE, calls |-> <<>>, probes |-> 0,
     recheck |-> FALSE]

\* a transport call; ok is its result once it has returned
TransportCall(to, params, timeout) ==
    [to |-> to, params |-> params, timeout |-> timeout, ok |-> "pending"]

\* params_lan or params
lan_params(params_lan) == IF Falsy(params_lan) THEN "params" ELSE params_lan

\* line 75: self.local.online and device.get('host')
can_local(device) == local_online /\ device.host # NoHost

\* a router that takes the cloud session alone as the cloud route
can_cloud_session(device) == cloud_online

\* line 76: self.cloud.online and device.get('online')
can_cloud(device) == cloud_online /\ device.online = "True"

\* a router that pulls the status after every reachable cloud send
query_always(s, ok) == ok = "online"

\* lines 88 and 100: the cloud send reported 'online' and query_cloud is set
query(s, ok) == ok = "online" /\ s.query_cloud

call(s, to, params, timeout, pc) ==
    [s EXCEPT !.calls = Append(@, TransportCall(to, params, timeout)), !.pc = pc]

\* a router that never probes the device
probe_never(s) == s

\* asyncio.create_task(self.local.check_offline(device)); the coroutine goes
\* on without awaiting the task
probe(s) == [s EXCEPT !.probes = @ + 1]

done(s) == [s EXCEPT !.pc = "done"]

\* lines 73-104 up to the first await
send(ref, params_lan, query_cloud) ==
    LET device == heap[ref]
        s == [Idle EXCEPT !.device = ref, !.params_lan = params_lan,
                          !.query_cloud = query_cloud,
                          !.entry = [local_online |-> local_online,
                                     host |-> device.host,
                                     cloud_online |-> cloud_online,
                                     online |-> device.online],
                          !.can_local = can_local(device),
                          !.can_cloud = can_cloud(device)]
    IN  IF s.can_local /\ s.can_cloud
        THEN call(s, "local", lan_params(params_lan), 1, "local_1s")
        ELSE IF s.can_local
        THEN call(s, "local", lan_params(params_lan), 5, "local_5s")
        ELSE IF s.can_cloud
        THEN call(s, "cloud", "params", -1, "cloud")
        ELSE done(s)

\* a router that reads the cloud flags again when the local send returns
resume_recheck(s0, ok) ==
    LET s == [s0 EXCEPT !.calls[Len(s0.calls)].ok = ok,
                        !.recheck = IF s0.pc \in {"local_1s", "local_5s"}
                                    THEN can_cloud(heap[s0.device]) ELSE @]
    IN  CASE s.pc \in {"local_1s", "local_5s"} ->
               IF ok = "online" THEN done(s)
               ELSE IF s.recheck
               THEN call(s, "cloud", "params", -1, "cloud_fallback")
               ELSE done(probe(s))
          [] s.pc = "cloud_fallback" ->
               IF ok # "online" THEN done(probe(s))
               ELSE IF query(s, ok) THEN call(s, "cloud", "None", 0, "query")
               ELSE done(s)
          [] s.pc = "cloud" ->
               IF query(s, ok) THEN call(s, "cloud", "None", 0, "query")
               ELSE done(s)
          [] s.pc = "query" -> done(s)

\* the coroutine resumed with the result ok of the call it awaits
resume(s0, ok) ==
    LET s == [s0 EXCEPT !.calls[Len(s0.calls)].ok = ok,
                        !.recheck = IF s0.pc \in {"local_1s", "local_5s"}
                                    THEN can_cloud(heap[s0.device]) ELSE @]
    IN  CASE s.pc = "local_1s" ->
               IF ok # "online"
               THEN call(s, "cloud", "params", -1, "cloud_fallback")
               ELSE done(s)
          [] s.pc = "cloud_fallback" ->
               IF ok # "online" THEN done(probe(s))
               ELSE IF query(s, ok) THEN call(s, "cloud", "None", 0, "query")
               ELSE done(s)
          [] s.pc = "local_5s" ->
               IF ok # "online" THEN done(probe(s)) ELSE done(s)
          [] s.pc = "cloud" ->
               IF query(s, ok) THEN call(s, "cloud", "None", 0, "query")
               ELSE done(s)
          [] s.pc = "query" -> done(s)

----------------------------------------------------------------------------
(* cloud_connected and pow_helper *)

\* line 195: asyncio.sleep(60) while the cloud is away
CLOUD_SLEEP == 60

\* an activation loop that sweeps at twice the period
SWEEP_SLEEP_slow == 2 * 150

\* line 209: asyncio.sleep(150) between two sweeps
SWEEP_SLEEP == 150

\* self.task and the locals of pow_helper(). pc: "none" (no task was ever
\* created), "start" (created, not yet run), "sleep" (in asyncio.sleep until
\* wake), "send" (awaiting cloud.send for devices[i]), "done" (returned),
\* "failed" (ended by an exception), "cancelling" (cancel() was called, the
\* CancelledError is not yet delivered), "cancelled".  orphans: the tasks
\* created before this one that were alive when self.task was assigned
\* anew.  The rest records what the loop did:
\* sent[r] activation sends for dict r, sweeps completed, waits for the
\* cloud, devices passed over as offline, and served: the dicts found online
\* when the loop last passed them, with no wait for the cloud since.
NoTask ==
    [pc |-> "none", devices |-> <<>>, i |-> 0, ts |-> 0, wake |-> 0,
     sent |-> [r \in Refs |-> 0], sweeps |-> 0, waits |-> 0, skips |-> 0,
     served |-> {}, orphans |-> 0]

\* line 188: "extra" in device and device["extra"]["uiid"] in POW_UI_ACTIVE
pow_device(device) == device.extra /\ device.uiid \in DOMAIN POW_UI_ACTIVE

\* lines 186-189: the dicts of self.devices.values(), in the order of the
\* keys, that the loop takes
pow_devices ==
    LET dids == SelectSeq(keys, LAMBDA did : pow_device(heap[devices[did]]))
    IN  [i \in 1..Len(dids) |-> devices[dids[i]]]

\* lines 204-206: the deadline moves by the refresh interval dt, and the
\* coroutine awaits self.cloud.send(device, params, timeout=0)
activate(p, i) ==
    LET ref == p.task.devices[i]
        dt == POW_UI_ACTIVE[p.heap[ref].uiid]
    IN  [p EXCEPT !.heap[ref].pow_ts = p.task.ts + dt,
                  !.task.sent[ref] = @ + 1,
                  !.task.pc = "send", !.task.i = i,
                  !.task.served = @ \cup {ref}]

\* an activation loop that takes a missing pow_ts as not yet due
due_later(device, ts) == device.pow_ts # 0 /\ device.pow_ts <= ts

\* line 201: not (device.get("pow_ts", 0) > ts)
due(device, ts) == ~(device.pow_ts > ts)

\* lines 200-209: the for loop from devices[i] on, up to the next await
RECURSIVE sweep(_, _)
sweep(p, i) ==
    IF i > Len(p.task.devices)
    THEN [p EXCEPT !.task.pc = "sleep", !.task.wake = now + SWEEP_SLEEP,
                   !.task.sweeps = @ + 1]
    ELSE LET ref == p.task.devices[i]
             device == p.heap[ref]
         IN  IF device.online = "unset"       \* KeyError: 'online'
             THEN [p EXCEPT !.task.pc = "failed"]
             ELSE IF device.online # "True"
             THEN sweep([p EXCEPT !.task.skips = @ + 1,
                                  !.task.served = @ \ {ref}], i + 1)
             ELSE IF ~due(device, p.task.ts)
             THEN sweep([p EXCEPT !.task.served = @ \cup {ref}], i + 1)
             ELSE activate(p, i)

\* lines 193-198: the top of the while loop
while(p) ==
    IF ~cloud_online
    THEN [p EXCEPT !.task.pc = "sleep", !.task.wake = now + CLOUD_SLEEP,
                   !.task.waits = @ + 1, !.task.served = {}]
    ELSE sweep([p EXCEPT !.task.ts = now], 1)

\* lines 186-191: the devices of the loop, listed as order has them
pow_helper(p, order) ==
    IF order = <<>> THEN [p EXCEPT !.task.pc = "done"]
    ELSE while([p EXCEPT !.task.devices = order])

\* a registry that starts a loop at every cloud connection
task_done_always == TRUE

\* lines 113-114: not self.task or self.task.done()
task_done == task.pc \notin Alive

\* line 114: self.task = asyncio.create_task(self.pow_helper()); the task
\* that self.task referred to goes on running if it was alive
create_task(t) ==
    [NoTask EXCEPT !.pc = "start",
                   !.orphans = t.orphans + (IF t.pc \in Alive THEN 1 ELSE 0)]

----------------------------------------------------------------------------
(* stop *)

\* line 53: self.devices.clear(); the dicts that nothing else holds are freed
stop_clear(st) ==
    [st EXCEPT !.devices = [did \in DIDS |-> NoRef],
               !.keys = <<>>,
               !.heap = [r \in Refs |-> IF r \in Held THEN st.heap[r] ELSE Blank]]

\* a registry that leaves the loop running at shutdown
cancel_never(t) == t

\* lines 59-60: if self.task: self.task.cancel(); cancelling a task that
\* is done changes nothing
cancel(t) == IF t.pc \in Alive THEN [t EXCEPT !.pc = "cancelling"] ELSE t

\* lines 110-111: the empty signal of every device of the registry, in
\* the order of self.devices.keys()
RECURSIVE republish(_, _)
republish(st, dids) ==
    IF dids = <<>> THEN st
    ELSE republish(dispatcher_send(st, Head(dids), "none"), Tail(dids))

cloud_connected(st) == republish(st, st.keys)

----------------------------------------------------------------------------
(* XRemote *)

\* RF channels; the bridge has a child entity for each learned channel
\* (self.childs), here for channel "0" only
Channels == {"0", "1"}
Learned == {"0"}

\* self.ts is None
NoTs == 0
Stamps == 1..MaxStamp

\* an RF trigger: the param rfTrig<ch> with value ts
Triggers == [ch : Channels, ts : Stamps]

Transports == {"local", "cloud"}

\* An XRemote after __init__ (line 78: _attr_is_on = True, line 109:
\* self.ts = None).  fired[t]: "sonoff.remote" events fired for trigger t;
\* updated[t]: internal_update calls of the child for t; told: the
\* notifications delivered so far.
NewRemote ==
    [is_on |-> TRUE, ts |-> NoTs,
     fired |-> [t \in Triggers |-> 0], updated |-> [t \in Triggers |-> 0],
     told |-> {}]

\* lines 111-141, for params with one rfTrig param (and maybe "arming",
\* "init")
set_state(r, params) ==
    LET t == params.trigger
    IN  IF ~r.is_on \/ params.init THEN r
        ELSE IF r.ts = NoTs /\ params.arming THEN [r EXCEPT !.ts = t.ts]
        ELSE IF t.ts = r.ts THEN r
        ELSE IF t.ch \notin Learned THEN [r EXCEPT !.ts = t.ts]
        ELSE [r EXCEPT !.ts = t.ts, !.updated[t] = @ + 1, !.fired[t] = @ + 1]

----------------------------------------------------------------------------
(* Inputs *)

\* devices of the cloud device list: they carry "online" and "extra"
DeviceInputs ==
    {Input(Device(did, online, NoHost, NoKey, TRUE, UiidSwitch), <<"XEntity">>, FALSE) :
        did \in DIDS, online \in {"True", "False"}}

Batches == UNION {[1..n -> DeviceInputs] : n \in 1..MaxBatch}

CloudMsgs == [deviceid : DIDS, params : CloudParams]

\* a local broadcast is plaintext (params, no key) or encrypted (data, key);
\* uiid, spec, rf and online are what setup_diy and get_spec make of it
Kind(uiid, spec, rf, online) ==
    [uiid |-> uiid, spec |-> spec, rf |-> rf, online |-> online]

PlainKind == Kind(UiidSwitch, <<"XEntity">>, FALSE, "unset")

LocalKinds ==
    {PlainKind,
     Kind(UiidSwitch, <<"XEntity">>, FALSE, "False"),
     Kind(UiidSwitch, <<"XFail">>, FALSE, "unset"),
     Kind(UiidRF, <<"XRemote">>, FALSE, "unset"),
     Kind(UiidRF, <<"XRemote">>, TRUE, "unset")}

LocalMsg(did, host, params, data, key, kind) ==
    [deviceid |-> did, host |-> host, params |-> params, data |-> data,
     key |-> key, uiid |-> kind.uiid, spec |-> kind.spec, rf |-> kind.rf,
     online |-> kind.online]

LocalMsgs ==
    {LocalMsg(did, host, params, "None", NoKey, kind) :
        did \in DIDS, host \in Hosts \cup {NoHost}, params \in LocalParams,
        kind \in LocalKinds}
    \cup
    {LocalMsg(did, host, "None", data, key, kind) :
        did \in DIDS, host \in Hosts \cup {NoHost}, data \in LocalParams,
        key \in Keys, kind \in LocalKinds}

----------------------------------------------------------------------------
(* Actions *)

\* registry entries
Count(devs) == Cardinality({did \in DIDS : devs[did] # NoRef})

\* The record of a handler call: its message, and what it found in the
\* registry (the number of entries, the message's device); for
\* setup_devices, batch lists the device ids and whether the capability
\* factory and the handler constructors succeed for the device; for
\* cloud_connected, alive tells whether it found self.task alive
Call(op, msg) ==
    [op |-> op, deviceid |-> msg.deviceid, host |-> msg.host,
     params |-> msg.params, data |-> msg.data, key |-> msg.key,
     count |-> Count(devices),
     known |-> msg.deviceid \in DIDS /\ devices[msg.deviceid] # NoRef,
     pre |-> IF msg.deviceid \in DIDS /\ devices[msg.deviceid] # NoRef
             THEN heap[devices[msg.deviceid]] ELSE Blank,
     raised |-> FALSE, probes |-> 0, batch |-> <<>>, alive |-> FALSE]

CommitCall(c, st) ==
    /\ ~st.oom
    /\ devices' = st.devices
    /\ keys' = st.keys
    /\ heap' = st.heap
    /\ pubs' = st.pubs
    /\ last' = [c EXCEPT !.raised = st.raised, !.probes = st.probes]

Commit(op, msg, st) == CommitCall(Call(op, msg), st)

NoMsg == LocalMsg("", NoHost, "None", "None", NoKey, Kind(0, <<>>, FALSE, "unset"))

Fails(device) == \E i \in 1..Len(device.spec) : device.spec[i] = "XFail"

SetupDevicesOf(batches) ==
    \E batch \in batches :
        /\ CommitCall([Call("setup_devices", NoMsg) EXCEPT
                          !.batch = [i \in 1..Len(batch) |->
                                       [deviceid |-> batch[i].dev.deviceid,
                                        fails |-> Fails(batch[i])]]],
                      setup_devices(State, batch))
        /\ UNCHANGED <<config, local_online, cloud_online, snd, task, now,
                   stopping, remote>>

CloudUpdateOf(msgs) ==
    \E msg \in msgs :
        /\ Commit("cloud_update",
                  [NoMsg EXCEPT !.deviceid = msg.deviceid, !.params = msg.params],
                  cloud_update(State, msg))
        /\ UNCHANGED <<config, local_online, cloud_online, snd, task, now,
                   stopping, remote>>

\* what the factories make of a message matters for an unknown device only
LocalUpdateOf(msgs) ==
    \E msg \in msgs :
        /\ devices[msg.deviceid] # NoRef =>
              Kind(msg.uiid, msg.spec, msg.rf, msg.online) = PlainKind
        /\ Commit("local_update", msg, local_update(State, msg))
        /\ UNCHANGED <<config, local_online, cloud_online, snd, task, now,
                   stopping, remote>>

SetupDevices == SetupDevicesOf(Batches)
CloudUpdate == CloudUpdateOf(CloudMsgs)
LocalUpdate == LocalUpdateOf(LocalMsgs)

\* send() is called with a device of the registry
Send ==
    /\ snd.pc \in {"idle", "done"}
    /\ \E did \in DIDS, params_lan \in {"None", "params_lan"}, query_cloud \in BOOLEAN :
           /\ devices[did] # NoRef
           /\ snd' = send(devices[did], params_lan, query_cloud)
    /\ UNCHANGED <<devices, keys, heap, config, local_online, cloud_online, pubs, last,
                   task, now,
                   stopping, remote>>

\* the transport call that send() awaits returns
Resume ==
    /\ snd.pc \notin {"idle", "done"}
    /\ \E ok \in Results : snd' = resume(snd, ok)
    /\ UNCHANGED <<devices, keys, heap, config, local_online, cloud_online, pubs, last,
                   task, now,
                   stopping, remote>>

\* the transports come and go
LocalOnline ==
    /\ local_online' = ~local_online
    /\ UNCHANGED <<devices, keys, heap, config, cloud_online, pubs, last, snd, task, now,
                   stopping, remote>>

CloudOnline ==
    /\ cloud_online' = ~cloud_online
    /\ UNCHANGED <<devices, keys, heap, config, local_online, pubs, last, snd, task, now,
                   stopping, remote>>

\* the cloud transport sends SIGNAL_CONNECTED; the handler reads no flag of
\* the transport
CloudConnected ==
    /\ CommitCall([Call("cloud_connected", NoMsg) EXCEPT
                      !.alive = task.pc \in Alive],
                  cloud_connected(State))
    /\ task' = IF task_done THEN create_task(task) ELSE task
    /\ UNCHANGED <<config, local_online, cloud_online, snd, now,
                   stopping, remote>>

PowState == [task |-> task, heap |-> heap]

PowCommit(p) ==
    /\ task' = p.task
    /\ heap' = p.heap
    /\ UNCHANGED <<devices, keys, config, local_online, cloud_online, pubs, last, snd, now,
                   stopping, remote>>

\* the event loop runs the new task
PowStart ==
    /\ task.pc = "start"
    /\ PowCommit(pow_helper(PowState, pow_devices))

\* the activation send that the loop awaits returns
PowResume ==
    /\ task.pc = "send"
    /\ PowCommit(sweep(PowState, task.i + 1))

\* the sleep of the loop is over
PowWake ==
    /\ task.pc = "sleep" /\ now >= task.wake
    /\ PowCommit(while(PowState))

\* time passes, up to the moment the loop is due to wake up; a task that
\* can run runs first (an activation send has timeout=0)
Tick ==
    /\ task.pc = "sleep" /\ now < task.wake /\ task.wake <= MaxTime
    /\ now' = task.wake
    /\ UNCHANGED <<devices, keys, heap, config, local_online, cloud_online, pubs, last,
                   snd, task,
                   stopping, remote>>

\* the CancelledError is thrown into the coroutine where it is suspended
PowCancelled ==
    /\ task.pc = "cancelling"
    /\ task' = [task EXCEPT !.pc = "cancelled"]
    /\ UNCHANGED <<devices, keys, heap, config, local_online, cloud_online, pubs, last,
                   snd, now, stopping, remote>>

\* stop() is called: lines 53-55, up to await self.cloud.stop()
Stop ==
    /\ stopping = "idle"
    /\ stopping' = "cloud_stop"
    /\ Commit("stop", NoMsg, stop_clear(State))
    /\ UNCHANGED <<config, local_online, cloud_online, snd, task, now, remote>>

\* lines 55-60: cloud.stop() returns and local.stop() is awaited;
\* local.stop() returns, the task is cancelled and stop() returns
StopResume ==
    /\ \/ /\ stopping = "cloud_stop"
          /\ stopping' = "local_stop"
          /\ task' = task
       \/ /\ stopping = "local_stop"
          /\ stopping' = "done"
          /\ task' = cancel(task)
    /\ UNCHANGED <<devices, keys, heap, config, local_online, cloud_online, pubs, last,
                   snd, now, remote>>

\* A transport notifies the entity of a trigger, once per transport; only
\* the local transport sends "arming", only the cloud a full state ("init")
SetState ==
    /\ \E t \in Triggers, by \in Transports, flag \in BOOLEAN :
           /\ <<t, by>> \notin remote.told
           /\ remote' = [set_state(remote,
                                   [trigger |-> t,
                                    arming |-> by = "local" /\ flag,
                                    init |-> by = "cloud" /\ flag])
                            EXCEPT !.told = @ \cup {<<t, by>>}]
    /\ UNCHANGED <<devices, keys, heap, config, local_online, cloud_online, pubs, last,
                   snd, task, now, stopping>>

\* async_turn_on, async_turn_off
Turn ==
    /\ remote' = [remote EXCEPT !.is_on = ~@]
    /\ UNCHANGED <<devices, keys, heap, config, local_online, cloud_online, pubs, last,
                   snd, task, now, stopping>>

Init ==
    /\ devices = [did \in DIDS |-> NoRef]
    /\ keys = <<>>
    /\ heap = [r \in Refs |-> Blank]
    /\ config = [did \in DIDS |-> IF did = "A1" THEN "k1" ELSE NoKey]
    /\ local_online = TRUE
    /\ cloud_online = TRUE
    /\ pubs = <<>>
    /\ last = Call("init", NoMsg)
    /\ snd = Idle
    /\ task = NoTask
    /\ now = StartTime
    /\ stopping = "idle"
    /\ remote = NewRemote

Next ==
    \/ SetupDevices
    \/ CloudUpdate
    \/ LocalUpdate

Spec == Init /\ [][Next]_vars

\* The router: one device, registered from the cloud list, whose online
\* value and host the update handlers change while commands are sent
RouterDID == "A1"

RouterBatches == {<<d>> : d \in {x \in DeviceInputs : x.dev.deviceid = RouterDID}}

RouterCloudMsgs == {m \in CloudMsgs : m.deviceid = RouterDID /\ HasOnline(m.params)}

RouterLocalMsgs ==
    {m \in LocalMsgs : m.deviceid = RouterDID /\ m.params = "switch"}

NextSend ==
    \/ SetupDevicesOf(RouterBatches)
    \/ CloudUpdateOf(RouterCloudMsgs)
    \/ (devices[RouterDID] # NoRef /\ LocalUpdateOf(RouterLocalMsgs))
    \/ LocalOnline
    \/ CloudOnline
    \/ Send
    \/ Resume

SpecSend == Init /\ [][NextSend]_vars

\* Device lists with devices whose handler construction fails, and RF
\* bridges with and without the data their child setup needs
SetupInputs ==
    DeviceInputs
    \cup {Input(Device(did, "True", NoHost, NoKey, TRUE, UiidSwitch), <<"XFail">>, FALSE) :
            did \in DIDS}
    \cup {Input(Device(did, "True", NoHost, NoKey, TRUE, UiidRF), <<"XRemote">>, rf) :
            did \in DIDS, rf \in BOOLEAN}

SetupBatches == UNION {[1..n -> SetupInputs] : n \in 1..MaxBatch}

NextSetup ==
    \/ SetupDevicesOf(SetupBatches)
    \/ CloudUpdate

SpecSetup == Init /\ [][NextSetup]_vars

\* The activation loop: two power-metering devices of the cloud list, with
\* refresh intervals of 30 and 400 seconds
PowInputs ==
    {Input(Device("A1", online, NoHost, NoKey, TRUE, UiidPow30), <<"XEntity">>, FALSE) :
        online \in {"True", "False"}}
    \cup
    {Input(Device("B2", online, NoHost, NoKey, TRUE, UiidPow400), <<"XEntity">>, FALSE) :
        online \in {"True", "False"}}

PowBatches ==
    {<<a, b>> : a \in {x \in PowInputs : x.dev.deviceid = "A1"},
                b \in {x \in PowInputs : x.dev.deviceid = "B2"}}

PowCloudMsgs == {m \in CloudMsgs : HasOnline(m.params)}

\* the devices are registered before the cloud session is first established
NextPow ==
    \/ (task.pc = "none" /\ SetupDevicesOf(PowBatches))
    \/ CloudUpdateOf(PowCloudMsgs)
    \/ CloudOnline
    \/ CloudConnected
    \/ PowStart
    \/ PowResume
    \/ PowWake
    \/ Tick

SpecPow == Init /\ [][NextPow]_vars

\* Shutdown: one power-metering device, registered (and registered again)
\* from the cloud list, local broadcasts of both devices, the activation
\* loop, and stop(). The cloud transport delivers events until
\* cloud.stop() has returned, the local transport until local.stop() has.
StopBatches == {<<d>> : d \in {x \in PowInputs : x.dev.deviceid = "A1"}}

StopCloudMsgs == {m \in CloudMsgs : m.deviceid = "A1" /\ HasOnline(m.params)}

StopLocalMsgs ==
    {m \in LocalMsgs : /\ m.host = "h1" /\ m.params = "switch"
                       /\ Kind(m.uiid, m.spec, m.rf, m.online) = PlainKind}

NextStop ==
    \/ (stopping = "idle" /\ SetupDevicesOf(StopBatches))
    \/ (stopping \in {"idle", "cloud_stop"} /\ CloudUpdateOf(StopCloudMsgs))
    \/ (stopping \in {"idle", "cloud_stop"} /\ CloudConnected)
    \/ (stopping # "done" /\ LocalUpdateOf(StopLocalMsgs))
    \/ PowStart
    \/ PowResume
    \/ PowWake
    \/ PowCancelled
    \/ Tick
    \/ Stop
    \/ StopResume

SpecStop == Init /\ [][NextStop]_vars

\* The RF bridge entity
NextRemote ==
    \/ SetState
    \/ Turn

SpecRemote == Init /\ [][NextRemote]_vars

----------------------------------------------------------------------------
(* Properties of the update handlers *)

\* the record the registry now holds for the device of the last message
Rec == heap[devices[last.deviceid]]

Indexes(sigs) == {i \in 1..Len(pubs) : pubs[i].sig \in sigs}

CloudCase == last.op = "cloud_update" /\ last.known
LocalCase == last.op = "local_update"

\* the last local message was encrypted and no key of the configuration
\* decrypts it
Undecryptable ==
    /\ Falsy(last.params)
    /\ ~(config[last.deviceid] # NoKey /\ config[last.deviceid] = last.key)

Decryptable ==
    /\ Falsy(last.params)
    /\ config[last.deviceid] # NoKey /\ config[last.deviceid] = last.key

\* C3: a cloud update whose online field equals the stored online value
\* publishes nothing and leaves the device record as it was; one whose
\* online field differs stores the new value and publishes exactly once.
C3_Dedup ==
    (CloudCase /\ HasOnline(last.params) /\ last.pre.online # "unset") =>
        IF last.pre.online = OnlineOf(last.params)
        THEN pubs = <<>> /\ Rec = last.pre /\ ~last.raised
        ELSE /\ Rec = [last.pre EXCEPT !.online = OnlineOf(last.params)]
             /\ Len(pubs) = 1
             /\ pubs[1].sig = last.deviceid /\ pubs[1].params = last.params

C3_Witness ==
    /\ CloudCase /\ HasOnline(last.params)
    /\ last.pre.online = "True" /\ OnlineOf(last.params) = "True"
    /\ last.pre.host # NoHost
    /\ pubs = <<>>

\* C4: a cloud update without an online field, for a device stored as
\* offline, sets online to true and publishes the message's params exactly
\* once, also when the params are empty.
C4_ImplicitOnline ==
    (CloudCase /\ ~HasOnline(last.params) /\ last.pre.online = "False") =>
        /\ Rec = [last.pre EXCEPT !.online = "True"]
        /\ Len(pubs) = 1
        /\ pubs[1].sig = last.deviceid /\ pubs[1].params = last.params

C4_Witness ==
    /\ CloudCase /\ last.params = "empty" /\ last.pre.online = "False"
    /\ Rec.online = "True" /\ Len(pubs) = 1

\* C5 (as claimed): a cloud update without an online field, for a device
\* whose record has no online value, sets online to true and publishes
\* exactly once.
C5_Claim ==
    (CloudCase /\ ~HasOnline(last.params) /\ last.pre.online = "unset") =>
        /\ Rec.online = "True"
        /\ Cardinality(Indexes({last.deviceid})) = 1
        /\ ~last.raised

\* C6 (as claimed): a local message for an unknown device that cannot be
\* decrypted leaves the number of registry entries unchanged and publishes
\* no per-device signal.
C6_Claim ==
    (LocalCase /\ ~last.known /\ Undecryptable) =>
        /\ Count(devices) = last.count
        /\ Indexes(DIDS) = {}

\* C6 (amended): such a message adds exactly one entry, the raw message
\* stored under the device id (no online value, no capability data), and
\* publishes nothing and schedules no probe.
C6_Placeholder ==
    (LocalCase /\ ~last.known /\ Undecryptable) =>
        /\ Count(devices) = last.count + 1
        /\ devices[last.deviceid] # NoRef
        /\ Rec = Device(last.deviceid, "unset", last.host, NoKey, FALSE, 0)
        /\ pubs = <<>>
        /\ last.probes = 0 /\ ~last.raised

C6_Witness ==
    /\ LocalCase /\ ~last.known /\ Undecryptable
    /\ last.key = "k2" /\ config[last.deviceid] = "k1"
    /\ last.count = 1 /\ Count(devices) = 2

\* C7 (as claimed): a local message for an unknown device that decrypts
\* with the key of the configuration adds exactly one registry entry under
\* the device id and publishes "add_entities" exactly once.
C7_Claim ==
    (LocalCase /\ ~last.known /\ Decryptable) =>
        /\ Count(devices) = last.count + 1
        /\ devices[last.deviceid] # NoRef
        /\ Cardinality(Indexes({SIGNAL_ADD_ENTITIES})) = 1

\* C10: a subscriber invoked by a per-device signal of cloud_update or
\* local_update reads the record as the message left it: the online value
\* of the cloud message, the host of the local telemetry message.
C10_MutateThenPublish ==
    (last.op \in {"cloud_update", "local_update"}) =>
        \A i \in Indexes({last.deviceid}) :
            /\ pubs[i].seen.online = Rec.online
            /\ pubs[i].seen.host = Rec.host
            /\ (last.op = "cloud_update" /\ HasOnline(last.params)) =>
                   pubs[i].seen.online = OnlineOf(last.params)
            /\ (last.op = "cloud_update" /\ ~HasOnline(last.params)) =>
                   pubs[i].seen.online = "True"
            /\ (last.op = "local_update" /\ pubs[i].params # "none") =>
                   pubs[i].seen.host = last.host

C10_Witness ==
    /\ LocalCase /\ last.known
    /\ last.pre.host = NoHost /\ last.host = "h1"
    /\ Len(pubs) = 1 /\ pubs[1].sig = last.deviceid
    /\ pubs[1].params = "switch" /\ pubs[1].seen.host = "h1"

\* the params the registry reads from the last local message of a
\* registered device: its plaintext params, or the payload when the
\* device key decrypts it ("None": it reads none)
KnownParams ==
    IF ~Falsy(last.params) THEN last.params
    ELSE IF last.pre.devicekey # NoKey /\ last.pre.devicekey = last.key
    THEN last.data
    ELSE "None"

\* the same for any local message; an unknown device's payload is
\* decrypted with the key of the configuration
ReadParams ==
    IF last.known THEN KnownParams
    ELSE IF ~Falsy(last.params) THEN last.params
    ELSE IF Decryptable THEN last.data
    ELSE "None"

\* the publications and probes that the online value of params allows
OnlineEffects(params) ==
    /\ pubs = IF OnlineOf(params) = "False"
              THEN <<[sig |-> last.deviceid, params |-> "none",
                      seen |-> [online |-> Rec.online, host |-> Rec.host]]>>
              ELSE <<>>
    /\ last.probes = IF OnlineOf(params) = "None" THEN 1 ELSE 0

\* C17 (as claimed): a local message whose plaintext or decrypted params
\* contain "online" leaves the host of the device unchanged and publishes
\* no telemetry; it publishes the empty per-device signal, and nothing
\* else, exactly when online is false, and schedules the offline probe
\* exactly when online is null.
C17_Claim ==
    (LocalCase /\ HasOnline(ReadParams)) =>
        /\ last.known => Rec.host = last.pre.host
        /\ OnlineEffects(ReadParams)

\* C17 (amended): the same, for a message of a device that is in the
\* registry when the message arrives; the whole record, not only its host,
\* is left as it was.
C17_OnlineFrame ==
    (LocalCase /\ last.known /\ HasOnline(KnownParams)) =>
        /\ Rec = last.pre
        /\ Count(devices) = last.count
        /\ ~last.raised
        /\ OnlineEffects(KnownParams)

C17_Witness ==
    /\ LocalCase /\ last.known /\ Falsy(last.params)
    /\ KnownParams = "online_False"
    /\ last.pre.host = NoHost /\ last.host = "h1" /\ Rec.host = NoHost
    /\ Len(pubs) = 1 /\ pubs[1].params = "none"

\* C18: an encrypted local message of a registered device whose record
\* has no device key, or whose payload the device key does not decrypt,
\* leaves the registry and the record (its host included) as they were,
\* publishes nothing and schedules no probe.
C18_Undecrypted ==
    (LocalCase /\ last.known /\ Falsy(last.params)
              /\ (last.pre.devicekey = NoKey \/ last.pre.devicekey # last.key)) =>
        /\ Rec = last.pre
        /\ Count(devices) = last.count
        /\ pubs = <<>>
        /\ last.probes = 0 /\ ~last.raised

C18_Witness ==
    /\ LocalCase /\ last.known /\ Falsy(last.params)
    /\ last.pre.devicekey = "k1" /\ last.key = "k2"
    /\ last.data = "switch"
    /\ last.pre.host = NoHost /\ last.host = "h1" /\ Rec.host = NoHost
    /\ pubs = <<>>

\* the "add_entities" publications of setup_devices (line 48)
Added == {i \in 1..Len(pubs) : pubs[i].sig = SIGNAL_ADD_ENTITIES
                                 /\ pubs[i].params = "entities"}

\* C13 (as claimed): no exception leaves setup_devices, and every device
\* of the batch whose own capability factory and handler constructors
\* succeed is in the registry and has had "add_entities" published, also
\* when they fail for another device of the batch.
C13_Claim ==
    (last.op = "setup_devices") =>
        LET good == {i \in 1..Len(last.batch) : ~last.batch[i].fails}
        IN  /\ ~last.raised
            /\ \A i \in good : devices[last.batch[i].deviceid] # NoRef
            /\ Cardinality(Added) = Cardinality(good)

----------------------------------------------------------------------------
(* Properties of send *)

\* the transports as send() found them at entry
LocalAtEntry == snd.entry.local_online /\ snd.entry.host # NoHost
CloudAtEntry == snd.entry.cloud_online /\ snd.entry.online = "True"

CallsTo(to) == {i \in 1..Len(snd.calls) : snd.calls[i].to = to}

\* cloud sends of the command params, and zero-payload status queries
Commands == {i \in CallsTo("cloud") : snd.calls[i].params = "params"}
Queries ==
    {i \in CallsTo("cloud") : snd.calls[i].params = "None" /\ snd.calls[i].timeout = 0}

\* C1: with both transports available at entry, a local result other than
\* 'online' is followed by exactly one cloud send of the command params,
\* and the zero-payload query follows it if and only if query_cloud is set
\* and that cloud send returned 'online'; a local result 'online' leaves
\* the cloud transport uncalled.
C1_Fallback ==
    (snd.pc = "done" /\ LocalAtEntry /\ CloudAtEntry) =>
        /\ CallsTo("local") = {1}
        /\ snd.calls[1].ok = "online" => CallsTo("cloud") = {}
        /\ snd.calls[1].ok # "online" =>
              /\ Commands = {2}
              /\ CallsTo("cloud") = Commands \cup Queries
              /\ Queries \subseteq {3}
              /\ Queries # {} <=> (snd.query_cloud /\ snd.calls[2].ok = "online")

C1_Witness ==
    /\ snd.pc = "done" /\ LocalAtEntry /\ CloudAtEntry
    /\ snd.calls[1].ok = "timeout"
    /\ Commands = {2} /\ Queries = {3}

\* C2: with neither transport available at entry, send returns without a
\* call to local.send, cloud.send or local.check_offline.
C2_Offline ==
    (snd.pc = "done" /\ ~LocalAtEntry /\ ~CloudAtEntry) =>
        snd.calls = <<>> /\ snd.probes = 0

C2_Witness ==
    /\ snd.pc = "done"
    /\ snd.entry.local_online /\ snd.entry.host = NoHost
    /\ snd.entry.cloud_online /\ snd.entry.online = "False"
    /\ snd.calls = <<>> /\ snd.probes = 0

\* C14: the route is decided by the flags read at entry. When the local
\* send has returned a result other than 'online', a cloud send of the
\* command follows if and only if the cloud route was available at entry,
\* whatever cloud.online and device.online have become in the meantime.
C14_EntryRoute ==
    (snd.pc = "done" /\ LocalAtEntry /\ snd.calls[1].ok # "online") =>
        /\ Commands # {} <=> CloudAtEntry
        /\ Commands \subseteq {2}
        /\ snd.can_cloud = CloudAtEntry /\ snd.can_local

\* the cloud route went away while the local send was awaited, and the
\* fallback was made all the same
C14_Witness ==
    /\ snd.pc = "done" /\ LocalAtEntry /\ CloudAtEntry
    /\ snd.calls[1].ok = "timeout"
    /\ ~snd.recheck
    /\ Commands = {2}

\* the calls of send() that have returned 'online'
Reached == {i \in 1..Len(snd.calls) : snd.calls[i].ok = "online"}

\* C15: a completed send has scheduled the offline probe, once, if and only
\* if the local route was available at entry and no transport call of the
\* send returned 'online'. The probe is a task of its own: send has
\* returned, every call it awaited is a local or cloud send that has
\* returned.
C15_Probe ==
    (snd.pc = "done") =>
        /\ snd.probes = (IF LocalAtEntry /\ Reached = {} THEN 1 ELSE 0)
        /\ \A i \in 1..Len(snd.calls) :
              snd.calls[i].to \in {"local", "cloud"} /\ snd.calls[i].ok # "pending"

C15_Witness ==
    /\ snd.pc = "done" /\ LocalAtEntry /\ CloudAtEntry
    /\ Len(snd.calls) = 2 /\ Reached = {}
    /\ snd.probes = 1

----------------------------------------------------------------------------
(* Properties of the activation loop *)

\* the dicts of the 30s-interval and of the 400s-interval device
D30 == devices["A1"]
D400 == devices["B2"]

\* The loop runs on both devices, has found the cloud available at every
\* check and both devices online at every pass, and is asleep after its
\* n-th sweep
AfterSweep(n) ==
    /\ task.pc = "sleep" /\ task.sweeps = n
    /\ {task.devices[i] : i \in 1..Len(task.devices)} = {D30, D400}
    /\ D30 # NoRef /\ D400 # NoRef
    /\ heap[D30].uiid = UiidPow30 /\ heap[D400].uiid = UiidPow400
    /\ task.waits = 0 /\ task.skips = 0

\* C8 (as claimed): after one sweep only the 30s-interval device has
\* received an activation send, and after three sweeps the 400s-interval
\* device has received exactly one.
C8_Claim ==
    /\ AfterSweep(1) => task.sent[D30] = 1 /\ task.sent[D400] = 0
    /\ AfterSweep(3) => task.sent[D400] = 1

\* C8 (amended): the first sweep sends an activation to both devices (a
\* device without pow_ts is due at once); after three sweeps, up to 450s
\* after the start, the 400s-interval device has received exactly one
\* activation send and the 30s-interval device three.
C8_Sweeps ==
    /\ AfterSweep(1) => task.sent[D30] = 1 /\ task.sent[D400] = 1
    /\ AfterSweep(3) =>
          /\ task.sent[D400] = 1 /\ task.sent[D30] = 3
          /\ now <= StartTime + 450

C8_Witness ==
    /\ AfterSweep(3)
    /\ now = StartTime + 450
    /\ task.sent[D400] = 1 /\ task.sent[D30] = 3

\* C9: while the loop runs, a device that it found online when it last
\* passed it, with the cloud available since, and that is online, is never
\* more than 150 time units past its pow_ts deadline.
C9_Deadline ==
    (task.pc \in {"sleep", "send"}) =>
        \A r \in task.served :
            heap[r].online = "True" => now - heap[r].pow_ts <= 150

C9_Witness ==
    /\ task.pc = "sleep" /\ now = task.wake /\ task.sweeps >= 2
    /\ cloud_online
    /\ \E r \in task.served :
          /\ heap[r].online = "True"
          /\ heap[r].pow_ts < now /\ now - heap[r].pow_ts <= 150
          /\ task.sent[r] >= 2

----------------------------------------------------------------------------
(* Properties of shutdown and of the task *)

\* positions from which the loop goes on to run
Runnable == {"start", "sleep", "send"}

\* C11: once stop() has returned, the loop is not in a position from which
\* it runs, and no step makes an activation send.
C11_Cancelled ==
    [][(stopping = "done") =>
          /\ task.pc \notin Runnable /\ task'.pc \notin Runnable
          /\ \A r \in Refs : task'.sent[r] <= task.sent[r]]_vars

\* stop() has returned; while it was suspended a cloud connection found
\* the loop alive, and the loop, which had made activation sends, is
\* cancelled
C11_Witness ==
    /\ stopping = "done"
    /\ last.op = "cloud_connected" /\ last.alive
    /\ task.pc \in {"cancelling", "cancelled"}
    /\ \E r \in Refs : task.sent[r] >= 1

\* C12 (as claimed): when stop() has returned the registry holds no
\* device record.
C12_Claim == (stopping = "done") => Count(devices) = 0

\* C16: no pow_helper task is alive other than the one self.task refers
\* to: cloud_connected has never assigned self.task while the task it
\* referred to was alive.
C16_OneTask == task.orphans = 0

\* a cloud connection found the loop alive and left it in place; the loop
\* has since gone on sweeping
C16_Witness ==
    /\ last.op = "cloud_connected" /\ last.alive
    /\ task.pc = "sleep" /\ task.sweeps >= 2
    /\ task.orphans = 0

\* C19 (as claimed): a dict the loop makes an activation send for is, at
\* that moment, the dict the registry holds under its device id.
C19_Claim ==
    [][\A r \in Refs :
          task'.sent[r] > task.sent[r] => devices[heap[r].deviceid] = r]_vars

----------------------------------------------------------------------------
(* Properties of XRemote *)

\* C20 (as claimed): a trigger fires the "sonoff.remote" event, and
\* updates its child, at most once, however the notifications of the two
\* transports interleave with those of other triggers.
C20_Claim ==
    \A t \in Triggers : remote.fired[t] <= 1 /\ remote.updated[t] <= 1

====
